---- MODULE Spec2Model ----
(***************************************************************************)
(* AgentSurfer: the workflow state machine (controller loop + nodes).      *)
(*                                                                         *)
(* One action of Next is one dispatch of the controller loop: the node     *)
(* named by currentNode runs to completion, its result is merged into the  *)
(* context, and currentNode becomes context.nextNode.  Replies of the      *)
(* language model and outcomes of the browser driver are chosen with \E.   *)
(***************************************************************************)
EXTENDS Integers, Sequences, FiniteSets, TLC

\* ------------------------------------------------------------------ bounds
\* context.actionsTaken is kept exactly up to MaxActions entries.
MaxActions == 2

\* context.candidateSelectors holds at most MaxCandidates entries.
MaxCandidates == 3

\* the most search results the orchestrator's search stage hands over
MaxResults == 2

\* ------------------------------------------------------- program constants
StepLimit == 20
RetryLimit == 3
NavLoopLimit == 3

\* ------------------------------------------------------------------- state
VARIABLES
  workflow,      \* which extractInfoNode the nodeMap binds
  task,          \* context.task
  currentNode,   \* controller variable currentNode
  lastNode,      \* context.lastNode
  done,          \* context.done
  crashed,       \* the controller's async function has thrown
  retryCount,    \* context.retryCount
  stepCount,     \* context.stepCount
  navLoopCount,  \* context._navLoopCount
  steps,         \* context.steps: the action names that occur in its entries
  actionsTaken,  \* context.actionsTaken (action names of the entries)
  error,         \* context.error
  finalResult,   \* context.finalResult
  nextAction,    \* context.nextAction
  nextArgs,      \* context.nextArgs
  extracted,     \* context.extracted
  plan,          \* context.plan / context.refined_query
  url,           \* page.url() of the one browser page
  passCalls,     \* kinds of I/O calls made by the pass just executed
  passTools,     \* tool calls that returned normally in the pass just executed
  passSteps,     \* entries the pass just executed appended to context.steps
  passReply,     \* the model's reply consumed by the pass just executed
  passArgs,      \* the arguments that reply attached to its action
  extraction,    \* context.extractionSelector / extractionIndex / candidateSelectors
  dom,           \* the page's elements, by selector
  attempts,      \* the (selector, index) pairs extractWithSelectorNode has tried
  toolAction,    \* the action whose tool is called
  toolInput,     \* the input handed to the tool's call(input)
  parsed,        \* what the tool's call(input) made of its input
  searchPc,      \* searchDuckDuckGo: where the function is
  currentPage,   \* searchDuckDuckGo: currentPage
  hasNext,       \* searchDuckDuckGo: hasNext
  blocksLeft,    \* searchDuckDuckGo: result blocks of the page not yet processed
  allResults,    \* searchDuckDuckGo: allResults (its length and the urls in it)
  pagesProcessed,\* searchDuckDuckGo: loop iterations begun
  searchReturn,  \* searchDuckDuckGo: the value returned
  orchPc,        \* orchestrateExtraction: the stage it is in
  results,       \* orchestrateExtraction: results
  tasks,         \* the extractBreakthroughFromPage calls of the fan-out
  breakthroughs, \* orchestrateExtraction: breakthroughs
  browserOpen,   \* the browser launched by orchestrateExtraction is open
  report         \* what orchestrateExtraction returned

vars == <<workflow, task, currentNode, lastNode, done, crashed, retryCount,
          stepCount, navLoopCount, steps, actionsTaken, error, finalResult,
          nextAction, nextArgs, extracted, plan, url, passCalls, passTools,
          passSteps, passReply, passArgs, extraction, dom, attempts, toolAction,
          toolInput, parsed,
          searchPc, currentPage, hasNext, blocksLeft, allResults,
          pagesProcessed, searchReturn, orchPc, results, tasks, breakthroughs, browserOpen,
          report>>

\* the context object and the controller's variables
workflowVars == <<workflow, task, currentNode, lastNode, done, crashed,
                  retryCount, stepCount, navLoopCount, steps, actionsTaken,
                  error, finalResult, nextAction, nextArgs, extracted, plan,
                  url, passCalls, passTools, passSteps, passReply, passArgs>>

\* the tool call under test
toolVars == <<toolAction, toolInput, parsed>>

\* the locals of searchDuckDuckGo
searchVars == <<searchPc, currentPage, hasNext, blocksLeft, allResults,
                pagesProcessed, searchReturn>>

\* the locals of orchestrateExtraction
orchVars == <<orchPc, results, tasks, breakthroughs, browserOpen, report>>

\* what the selector extraction reads and records
extractionVars == <<extraction, dom, attempts>>

\* -------------------------------------------------------------- vocabulary
NullNode == "null"

NodeNames == {"startNode", "planNode", "extractInfoNode",
              "extractWithSelectorNode", "analyzePageNode", "takeActionNode",
              "errorHandlingNode", "checkCompletionNode", "endNode"}

Blank   == "about:blank"
DuckUrl == "https://duckduckgo.com"
HtmlDuckUrl == "https://html.duckduckgo.com/html/"
OtherUrl == "https://example.com"

Urls == {Blank, DuckUrl, HtmlDuckUrl, OtherUrl}

taskTargetUrl == DuckUrl

\* tasks: one with a quoted query, one whose query is blank
TaskQuoted == "search for 'cats'"
TaskBlank  == "search for  , then stop"
Tasks == {TaskQuoted, TaskBlank}

NoError      == "none"
StepLimitErr == "Step limit exceeded. Possible infinite loop."
NavLoopErr   == "Navigation loop detected: tried to navigate to the same URL too many times."

Unset == "unset"

\* no prompt was answered in the pass
NoReply == "none"

\* Argument objects the model can attach to an action.
\* a field value that is not a string (a number, null, an object): the code
\* and the schemas only ask typeof value === 'string' of it
NotAString == "<not a string>"
IsString(v) == v # NotAString

NoArgs       == [kind |-> "undefined"]
EmptyArgs    == [kind |-> "object"]
SelArgs      == [kind |-> "object", selector |-> "#q"]
TypeArgs     == [kind |-> "object", selector |-> "#q", text |-> "cats"]
TextOnlyArgs == [kind |-> "object", text |-> "cats"]
UrlArgs(u)   == [kind |-> "object", url |-> u]

\* context.finalResult is a string, written as the sequence of the pieces it
\* is concatenated from; NoResult stands for undefined.
NoResult == <<"undefined">>

AllowedActions == <<"navigate", "type", "click", "extract", "finish">>

SeqToSet(s) == {s[i] : i \in 1..Len(s)}

\* Selectors of candidate elements (test.js:139-158) and the element
\* positions a candidate can name.
Selectors == {"a", "h2 a"}
ElementIndexes == {0, 1}

\* context.extractionSelector etc. before any node has set them
NoExtraction ==
  [selector |-> "undefined", index |-> 0, listed |-> FALSE, candidates |-> <<>>]

\* a page on which no selector matches
EmptyDom == [sel \in Selectors |-> [present |-> FALSE, texts |-> <<>>]]

\* no tool call has been made
ToolIdle ==
  /\ toolAction = Unset
  /\ toolInput = NoArgs
  /\ parsed = [status |-> "none"]

\* no workflow is being run by the controller
WorkflowIdle ==
  /\ workflow = "none"
  /\ task = TaskQuoted
  /\ currentNode = NullNode
  /\ lastNode = NullNode
  /\ done = FALSE
  /\ crashed = FALSE
  /\ retryCount = 0
  /\ stepCount = 0
  /\ navLoopCount = 0
  /\ steps = {}
  /\ actionsTaken = <<>>
  /\ error = NoError
  /\ finalResult = NoResult
  /\ nextAction = Unset
  /\ nextArgs = NoArgs
  /\ extracted = Unset
  /\ plan = [plan |-> "unset", refined_query |-> "unset"]
  /\ url = Blank
  /\ passCalls = {}
  /\ passTools = <<>>
  /\ passSteps = <<>>
  /\ passReply = NoReply
  /\ passArgs = NoArgs
  /\ extraction = NoExtraction
  /\ dom = EmptyDom
  /\ attempts = <<>>

\* searchDuckDuckGo has not been called
SearchIdle ==
  /\ searchPc = "idle"
  /\ currentPage = 1
  /\ hasNext = TRUE
  /\ blocksLeft = 0
  /\ allResults = [count |-> 0, urls |-> {}]
  /\ pagesProcessed = 0
  /\ searchReturn = [count |-> 0, urls |-> {}]

\* orchestrateExtraction has not been called
OrchIdle ==
  /\ orchPc = "idle"
  /\ results = <<>>
  /\ tasks = <<>>
  /\ breakthroughs = <<>>
  /\ browserOpen = FALSE
  /\ report = [status |-> "none"]

\* ------------------------------------------------------------------- Init
\* src/test.js:1145-1158: the context literal and currentNode = 'startNode'.
\* stepCount and steps are absent from the literal; extractInfoNode reads
\* them with the defaults 0 and [].
Init ==
  /\ workflow \in {"modular", "legacy"}
  /\ task \in Tasks
  /\ currentNode = "startNode"
  /\ lastNode = NullNode
  /\ done = FALSE
  /\ crashed = FALSE
  /\ retryCount = 0
  /\ stepCount = 0
  /\ navLoopCount = 0
  /\ steps = {}
  /\ actionsTaken = <<>>
  /\ error = NoError
  /\ finalResult = NoResult
  /\ nextAction = Unset
  /\ nextArgs = [kind |-> "undefined"]
  /\ extracted = Unset
  /\ plan = [plan |-> "unset", refined_query |-> "unset"]
  /\ url = Blank
  /\ passCalls = {}
  /\ passTools = <<>>
  /\ passSteps = <<>>
  /\ passReply = NoReply
  /\ passArgs = [kind |-> "undefined"]
  /\ extraction = NoExtraction
  /\ dom = EmptyDom
  /\ attempts = <<>>
  /\ ToolIdle
  /\ SearchIdle
  /\ OrchIdle

\* ------------------------------------------------------------- controller
\* Dispatch with the loop condition dropped (while (true)).
DispatchIgnoringDone(n) ==
  /\ ~crashed
  /\ currentNode = n
  /\ lastNode' = n

\* src/test.js:1159-1162: the loop runs while !context.done, records
\* context.lastNode = currentNode and looks the node up in nodeMap.
Dispatch(n) ==
  /\ ~done
  /\ ~crashed
  /\ currentNode = n
  /\ lastNode' = n

\* src/test.js:1163-1165: an exception thrown by the awaited node function
\* leaves the loop (nothing catches it); the context keeps what the node had
\* already written in place.
Throws == crashed' = TRUE /\ UNCHANGED <<currentNode, done>>

\* src/test.js:1164-1165: Object.assign(context, result); currentNode = nextNode
Goto(n) == currentNode' = n /\ UNCHANGED <<crashed, done>>

\* src/test.js:1162: if (!nodeFn) throw new Error('Unknown node: ' + currentNode)
UnknownNode ==
  /\ ~done
  /\ ~crashed
  /\ currentNode \notin NodeNames
  /\ lastNode' = currentNode
  /\ crashed' = TRUE
  /\ passCalls' = {}
  /\ passTools' = <<>>
  /\ passSteps' = <<>>
  /\ passReply' = NoReply /\ passArgs' = NoArgs
  /\ UNCHANGED <<extractionVars, toolVars, searchVars, orchVars>>
  /\ UNCHANGED <<workflow, task, currentNode, done, retryCount, stepCount,
                 navLoopCount, steps, actionsTaken, error, finalResult,
                 nextAction, nextArgs, extracted, plan, url>>

\* ----------------------------------------------------------------- nodes
\* src/test.js:40-43
startNode ==
  /\ Dispatch("startNode")
  /\ Goto("planNode")
  /\ passCalls' = {}
  /\ passTools' = <<>>
  /\ passSteps' = <<>>
  /\ passReply' = NoReply /\ passArgs' = NoArgs
  /\ UNCHANGED <<extractionVars, toolVars, searchVars, orchVars>>
  /\ UNCHANGED <<workflow, task, retryCount, stepCount, navLoopCount, steps,
                 actionsTaken, error, finalResult, nextAction, nextArgs,
                 extracted, plan, url>>

\* Replies of the model to the plan prompt: the call rejects, the expected
\* JSON object, text that is not JSON, the JSON text null, a JSON scalar.
PlanReplies == {"rejects", "object", "notjson", "jsonnull", "jsonscalar"}

\* src/nodes/planNode.js:5-15: what plan / refined_query become
PlanOf(reply) ==
  CASE reply = "object"     -> [plan |-> "reply.plan", refined_query |-> "reply.refined_query"]
    [] reply = "notjson"    -> [plan |-> "raw reply", refined_query |-> "task"]
    [] reply = "jsonscalar" -> [plan |-> "undefined", refined_query |-> "undefined"]

\* src/nodes/planNode.js:1-17
planNode ==
  /\ Dispatch("planNode")
  /\ passCalls' = {"llm"}
  /\ passTools' = <<>>
  /\ passSteps' = <<>>
  /\ \E reply \in PlanReplies :
       /\ passReply' = reply /\ passArgs' = NoArgs
       /\ IF reply \in {"rejects", "jsonnull"}
            THEN \* llm.invoke rejects (line 4), or planObj is null and
                 \* planObj.plan throws a TypeError (line 12)
                 Throws /\ UNCHANGED plan
            ELSE Goto("extractInfoNode") /\ plan' = PlanOf(reply)
  /\ UNCHANGED <<extractionVars, toolVars, searchVars, orchVars>>
  /\ UNCHANGED <<workflow, task, retryCount, stepCount, navLoopCount, steps,
                 actionsTaken, error, finalResult, nextAction, nextArgs,
                 extracted, url>>

\* src/unnamed/part_004:9: 'Error: ' + context.error
ErrorResult(e) == <<"Error: ", e>>

\* src/unnamed/part_004:3
RetryIncrement(rc) == rc + 1

\* RetryTarget without the ceiling: the handler always retries.
RetryTargetNoCeiling(rc, last) == last

\* RetryTarget resuming at a fixed node instead of context.lastNode.
RetryTargetResumeExtract(rc, last) ==
  IF rc < RetryLimit THEN "extractInfoNode" ELSE "endNode"

\* src/unnamed/part_004:4-11: the node the error handler hands control to
RetryTarget(rc, last) == IF rc < RetryLimit THEN last ELSE "endNode"

\* src/unnamed/part_004:1-12
errorHandlingNode ==
  /\ Dispatch("errorHandlingNode")
  /\ retryCount' = RetryIncrement(retryCount)
  /\ Goto(RetryTarget(retryCount', lastNode'))
  /\ finalResult' = IF retryCount' < RetryLimit THEN finalResult
                    ELSE ErrorResult(error)
  /\ passCalls' = {}
  /\ passTools' = <<>>
  /\ passSteps' = <<>>
  /\ passReply' = NoReply /\ passArgs' = NoArgs
  /\ UNCHANGED <<extractionVars, toolVars, searchVars, orchVars>>
  /\ UNCHANGED <<workflow, task, stepCount, navLoopCount, steps, actionsTaken,
                 error, nextAction, nextArgs, extracted, plan, url>>

\* ------------------------------------------------------ extractInfoNode
\* src/unnamed/part_001:1-4 extractQueryFromTask, on the tasks above
extractQueryFromTask(tk) == IF tk = TaskQuoted THEN "cats" ELSE " "

\* String.prototype.trim on the strings of this model
Trim(str) == IF str = " " THEN "" ELSE str

\* src/nodes/extractInfoNode.js:63-69: duckUrls.some(u => currentUrl.startsWith(u))
isDuck(u) == u = DuckUrl

\* context.steps is modelled by the set of action names of its entries:
\* the code reads the log only through steps.some(s => s.action === ...)
\* (lines 70-72) and otherwise appends to it ([...steps, entry]).  What one
\* pass appended, in order, is kept in passSteps.
AppendSteps(st, added) == st \cup SeqToSet(added)

\* src/nodes/extractInfoNode.js:70-72
hasTypedOrClicked(st) == "type" \in st \/ "click" \in st
hasTyped(st)     == "type" \in st
hasClicked(st)   == "click" \in st \/ "click_enter" \in st
hasExtracted(st) == "extract" \in st

\* src/nodes/extractInfoNode.js:48-53 toolNameMap
ToolOf(a) ==
  CASE a = "type"     -> "type_text"
    [] a = "navigate" -> "navigate_to_url"
    [] a = "click"    -> "click_element"
    [] a = "extract"  -> "extract_text"
    [] OTHER          -> "none"

Field(args, f) == IF f \in DOMAIN args THEN args[f] ELSE ""

\* src/unnamed/part_001:7-28
validateActionArgs(action, args) ==
  /\ action \in {"type", "click", "extract"} =>
       /\ args.kind = "object"
       /\ IsString(Field(args, "selector"))
       /\ Trim(Field(args, "selector")) # ""
  /\ action = "type" =>
       /\ args.kind = "object"
       /\ IsString(Field(args, "text"))
       /\ Trim(Field(args, "text")) # ""
  /\ action = "navigate" =>
       /\ args.kind = "object"
       /\ IsString(Field(args, "url"))
       /\ Trim(Field(args, "url")) # ""

\* The accepted actions with 'search' let through.
ExtractActionsWithSearch ==
  {"navigate", "type", "click", "extract", "finish", "search"}

\* src/nodes/extractInfoNode.js:40: the actions the node accepts
ExtractActions == {"navigate", "type", "click", "extract", "finish"}

\* What a reply says: that the call rejected, that the text is not JSON, or
\* the action the JSON names ("missing" when it names none).
ReplyName(r) == IF r.kind = "json" THEN r.action ELSE r.kind

\* the arguments of a reply, undefined when it is not JSON
ReplyArgs(r) == IF r.kind = "json" THEN r.args ELSE NoArgs

\* Replies of the model to the extractInfoNode prompt.
ExtractReplies ==
  {[kind |-> "rejects"], [kind |-> "notjson"],
   [kind |-> "json", action |-> "search", args |-> EmptyArgs],
   [kind |-> "json", action |-> "missing", args |-> EmptyArgs],
   [kind |-> "json", action |-> "finish", args |-> EmptyArgs],
   [kind |-> "json", action |-> "navigate", args |-> UrlArgs(DuckUrl)],
   [kind |-> "json", action |-> "navigate", args |-> UrlArgs(OtherUrl)],
   [kind |-> "json", action |-> "navigate", args |-> NoArgs],
   [kind |-> "json", action |-> "type", args |-> TypeArgs],
   [kind |-> "json", action |-> "type", args |-> TextOnlyArgs],
   [kind |-> "json", action |-> "type", args |-> EmptyArgs],
   [kind |-> "json", action |-> "type", args |-> NoArgs],
   [kind |-> "json", action |-> "click", args |-> SelArgs],
   [kind |-> "json", action |-> "click", args |-> EmptyArgs],
   [kind |-> "json", action |-> "extract", args |-> SelArgs],
   [kind |-> "json", action |-> "extract", args |-> NoArgs]}

\* One result of a node function: the fields it returns or has written in
\* place, the I/O it made, and whether it threw instead of returning.
Ret(next, st, added, sc, err, u, calls, tools) ==
  [thrown |-> FALSE, nextNode |-> next, steps |-> AppendSteps(st, added),
   added |-> added, stepCount |-> sc, error |-> err, url |-> u,
   calls |-> calls, tools |-> tools, reply |-> NoReply, args |-> NoArgs]

Raise(st, sc, u, calls, tools) ==
  [thrown |-> TRUE, nextNode |-> "none", steps |-> st, added |-> <<>>,
   stepCount |-> sc, error |-> "keep", url |-> u, calls |-> calls,
   tools |-> tools, reply |-> NoReply, args |-> NoArgs]

Fail(msg, st, sc, u, calls, tools) ==
  Ret("errorHandlingNode", st, <<>>, sc, msg, u, calls, tools)

\* Error messages other than the two ceilings' are kept by kind: a reply
\* of the model the node rejects, or a browser / tool call that failed.
ReplyErr   == "unusable model reply"
BrowserErr == "browser or tool call failed"
ToolErr    == BrowserErr
TypeErr    == ReplyErr

\* The step-limit check off by one (> instead of >=).
StepLimitOffByOne(sc) == sc > StepLimit

\* src/nodes/extractInfoNode.js:12: the step-limit check
StepLimitReached(sc) == sc >= StepLimit

\* src/nodes/extractInfoNode.js:166,246,279: stepCount: stepCount + 1
NextStepCount(sc) == sc + 1

\* src/nodes/extractInfoNode.js:74-167: the forced DuckDuckGo sequence
\* (type, submit, wait for results, extract), entered at line 74.
ForcedSequence(st, sc, u, tk) ==
  LET io == {"page", "llm"}
      t  == {"page", "llm", "tool"}
      q  == extractQueryFromTask(tk)
  IN
  \* 77-86 setUserAgent .. goto('https://duckduckgo.com') fails
  {Fail(BrowserErr, st, sc, u, io, <<>>)}
  \cup
  (IF Trim(q) = ""
     THEN \* 88-92
          {Fail(BrowserErr, st, sc, DuckUrl, io, <<>>)}
     ELSE
       \* 99 type_text fails / 101 page.content fails
       {Fail(ToolErr, st, sc, DuckUrl, t, <<>>),
        Fail(BrowserErr, st, sc, DuckUrl, t, <<"type_text">>)}
       \cup
       \* 112-127 click fails and so does the Enter fallback
       {Fail(BrowserErr, st, sc, DuckUrl, t,
             <<"type_text">>)}
       \cup
       UNION {
         LET done1 == IF c = "click" THEN <<"type_text", "click_element">>
                      ELSE <<"type_text">>
         IN
         \* 129 page.content fails
         {Fail(BrowserErr, st, sc, DuckUrl, t, done1)}
         \cup
         \* 140-142 the non-JS fallback page fails to load or to take input
         {Fail(BrowserErr, st, sc, DuckUrl, t, done1),
          Fail(BrowserErr, st, sc, HtmlDuckUrl, t, done1)}
         \cup
         \* 144-150 no results on the non-JS page either
         {Fail(BrowserErr, st, sc, HtmlDuckUrl,
               t, done1)}
         \cup
         UNION {
           \* 159-163 extract_text fails
           {Fail(BrowserErr, st, sc, u2, t, done1),
            \* 165 page.content fails after the three calls
            Fail(BrowserErr, st, sc, u2, t, done1 \o <<"extract_text">>),
            \* 164-166 success
            Ret("extractInfoNode", st, <<"type", c, "extract">>,
                NextStepCount(sc), "keep", u2, t,
                done1 \o <<"extract_text">>)}
           : u2 \in {DuckUrl, HtmlDuckUrl}}
         : c \in {"click", "click_enter"}})

\* src/nodes/extractInfoNode.js:169-233: already typed, clicked and
\* extracted on DuckDuckGo and the model says 'type' again
ForcedFinish(st, sc, u) ==
  LET io == {"page", "llm"} IN
  {Fail(BrowserErr, st, sc, u, io, <<>>)}      \* 172 page.$$eval fails
  \cup
  {Ret(NullNode, st, <<"finish">>, sc, "keep", u2, io, <<>>)
     : u2 \in {u, OtherUrl}}                   \* 179-221 visits, 232 return

\* src/nodes/extractInfoNode.js:236-279: the model's own action
ChosenAction(st, sc, u, action, args0) ==
  LET io == {"page", "llm"}
      t  == {"page", "llm", "tool"}
      needsFill == action = "type" /\
                   (args0.kind # "object" \/ Trim(Field(args0, "selector")) = "")
      \* 251-255: args.selector = autofilled.args.selector
      args == IF needsFill /\ args0.kind = "object"
                THEN [f \in DOMAIN args0 \cup {"selector"} |->
                        IF f = "selector" THEN "input[name='q']" ELSE args0[f]]
                ELSE args0
  IN
  IF needsFill /\ args0.kind # "object"
    THEN {Fail(TypeErr, st, sc, u, io, <<>>)}                   \* 255, 280
  ELSE IF ~validateActionArgs(action, args)
    THEN {Fail(ReplyErr, st, sc, u, io, <<>>)}
  ELSE IF action = "finish"
    THEN {Ret("checkCompletionNode", st, <<"finish">>, sc, "keep",
              u, io, <<>>)}                                     \* 266-269
  ELSE IF ToolOf(action) = "none"
    THEN {Fail(ReplyErr, st, sc, u, io, <<>>)}                  \* 270-273
  ELSE
    LET u2 == IF action = "navigate" THEN args.url ELSE u IN
    {Fail(ToolErr, st, sc, u, t, <<>>),                         \* 274, 280
     Fail(BrowserErr, st, sc, u2, t, <<ToolOf(action)>>),       \* 278, 280
     Ret("extractInfoNode", st, <<action>>, NextStepCount(sc),
         "keep", u2, t, <<ToolOf(action)>>)}                    \* 276-279

\* src/nodes/extractInfoNode.js:6-284: every result of one call
extractInfoModular(st, sc, u, tk) ==
  IF StepLimitReached(sc)
    THEN {Fail(StepLimitErr, st, sc, u, {}, <<>>)}              \* 12-15
  ELSE
    {Raise(st, sc, u, {"page"}, <<>>)}                  \* 18 throws
    \cup
    UNION {
      {[res EXCEPT !.reply = ReplyName(r), !.args = ReplyArgs(r)] : res \in
        CASE r.kind = "rejects" ->
               {Raise(st, sc, u, {"page", "llm"}, <<>>)}  \* 23 throws
          [] r.kind = "notjson" ->
               {Fail(ReplyErr, st, sc, u, {"page", "llm"}, <<>>)}
          [] r.kind = "json" /\ r.action \notin ExtractActions ->
               {Fail(ReplyErr, st, sc, u,
                     {"page", "llm"}, <<>>)}                      \* 40-43
          [] OTHER ->
               {Fail(BrowserErr, st, sc, u, {"page", "llm"}, <<>>)}  \* 62, 280
               \cup
               (IF isDuck(u) /\ ~hasTyped(st)
                  THEN ForcedSequence(st, sc, u, tk)
                ELSE IF isDuck(u) /\ hasTyped(st) /\ hasClicked(st)
                        /\ hasExtracted(st) /\ r.action = "type"
                  THEN ForcedFinish(st, sc, u)
                ELSE ChosenAction(st, sc, u, r.action, r.args))}
      : r \in ExtractReplies}

\* src/nodes/nodes.js:556-582: the extractInfoNode of the legacy workflow
extractInfoLegacy(st, sc, u, nargs) ==
  LET u2 == IF u = Blank /\ "url" \in DOMAIN nargs /\ nargs.url # ""
              THEN nargs.url ELSE u
  IN {Fail(BrowserErr, st, sc, u, {"page"}, <<>>),          \* 579-581
      Fail(BrowserErr, st, sc, u2, {"page"}, <<>>),
      Ret("analyzePageNode", st, <<>>, sc, "keep", u2, {"page"}, <<>>)}

\* test.js:1121-1131 / nodes.js:834-843: the function nodeMap.extractInfoNode
\* (and the call in takeActionNode) resolves to
extractInfoResults(wf, st, sc, u, tk, nargs) ==
  IF wf = "modular" THEN extractInfoModular(st, sc, u, tk)
  ELSE extractInfoLegacy(st, sc, u, nargs)

\* the controller dispatches extractInfoNode
extractInfoNode ==
  /\ Dispatch("extractInfoNode")
  /\ \E r \in extractInfoResults(workflow, steps, stepCount, url, task,
                                 nextArgs) :
       /\ IF r.thrown THEN Throws ELSE Goto(r.nextNode)
       /\ steps' = r.steps
       /\ stepCount' = r.stepCount
       /\ error' = IF r.error = "keep" THEN error ELSE r.error
       /\ url' = r.url
       /\ passCalls' = r.calls
       /\ passTools' = r.tools
       /\ passSteps' = r.added
       /\ passReply' = r.reply
       /\ passArgs' = r.args
  /\ UNCHANGED <<extractionVars, toolVars, searchVars, orchVars>>
  /\ UNCHANGED <<workflow, task, retryCount, navLoopCount, actionsTaken,
                 finalResult, nextAction, nextArgs, extracted, plan>>

\* ------------------------------------------------------ analyzePageNode
\* allowedActions without the removal of navigate.
allowedActionsKeepNavigate(u) == AllowedActions
allowedActionsNoFinish(u) ==
  SelectSeq(AllowedActions, LAMBDA a : a \notin {"navigate", "finish"})

\* src/nodes/analyzePageNode.js:5,14-16
allowedActions(u) ==
  IF u = taskTargetUrl
    THEN SelectSeq(AllowedActions, LAMBDA a : a # "navigate")
    ELSE AllowedActions

\* src/nodes/analyzePageNode.js:110: the fallback action
Fallback(allowed) ==
  LET pref == SelectSeq(allowed,
                        LAMBDA a : a \in {"type", "click", "extract", "finish"})
  IN IF pref # <<>> THEN Head(pref) ELSE Head(allowed)

\* Replies of the model to the analyzePageNode prompt; "schema" marks a
\* reply the discriminated-union parser accepts (lines 19-40).
AnalyzeReplies ==
  {[kind |-> "rejects"], [kind |-> "notjson"],
   [kind |-> "json", schema |-> FALSE, action |-> "search", args |-> EmptyArgs],
   [kind |-> "json", schema |-> FALSE, action |-> "click", args |-> EmptyArgs],
   [kind |-> "json", schema |-> TRUE, action |-> "navigate", args |-> UrlArgs(DuckUrl)],
   [kind |-> "json", schema |-> TRUE, action |-> "navigate", args |-> UrlArgs(OtherUrl)],
   [kind |-> "json", schema |-> TRUE, action |-> "type", args |-> TypeArgs],
   [kind |-> "json", schema |-> TRUE, action |-> "click", args |-> SelArgs],
   [kind |-> "json", schema |-> TRUE, action |-> "extract", args |-> SelArgs],
   [kind |-> "json", schema |-> TRUE, action |-> "finish", args |-> EmptyArgs]}

\* src/nodes/analyzePageNode.js:1-124
analyzePageNode ==
  /\ Dispatch("analyzePageNode")
  /\ passTools' = <<>>
  /\ passSteps' = <<>>
  /\ \/ \* 12: page.url() throws
        /\ Throws
        /\ passCalls' = {"page"}
        /\ passReply' = NoReply /\ passArgs' = NoArgs
        /\ UNCHANGED <<error, nextAction, nextArgs>>
     \/ \E r \in AnalyzeReplies :
          /\ passCalls' = {"page", "llm"}
          /\ passReply' = ReplyName(r)
          /\ passArgs' = ReplyArgs(r)
          /\ CASE r.kind = "rejects" ->                         \* 90 throws
                    Throws /\ UNCHANGED <<error, nextAction, nextArgs>>
               [] r.kind = "notjson" \/ (r.kind = "json" /\ ~r.schema) ->
                    /\ Goto("errorHandlingNode")                \* 99-104
                    /\ error' = ReplyErr
                    /\ UNCHANGED <<nextAction, nextArgs>>
               [] OTHER ->
                    LET allowed == allowedActions(url)
                        ok == r.action \in SeqToSet(allowed)
                    IN /\ Goto("takeActionNode")                \* 107-123
                       /\ nextAction' = IF ok THEN r.action ELSE Fallback(allowed)
                       /\ nextArgs' = IF ok THEN r.args ELSE EmptyArgs
                       /\ UNCHANGED error
  /\ UNCHANGED <<extractionVars, toolVars, searchVars, orchVars>>
  /\ UNCHANGED <<workflow, task, retryCount, stepCount, navLoopCount, steps,
                 actionsTaken, finalResult, extracted, plan, url>>

\* ------------------------------------------------------- takeActionNode
\* context.actionsTaken as the action names of its entries, kept entry for
\* entry up to MaxActions entries (the code only shows it to the model).
PushActionTwice(at, a) ==
  IF Len(at) + 1 < MaxActions THEN at \o <<a, a>> ELSE at
PushActionSlidingWindow(at, a) ==
  IF Len(at) < MaxActions THEN Append(at, a) ELSE Append(Tail(at), a)
PushAction(at, a) == IF Len(at) < MaxActions THEN Append(at, a) ELSE at

\* src/tools.js:10-12, 29-31, 66-69, 87-89: the keys each tool's z.object
\* schema declares, every one a z.string()
DeclaredFieldsTypeNoText(action) ==
  CASE action = "navigate" -> {"url"}
    [] action \in {"type", "click", "extract"} -> {"selector"}
    [] OTHER -> {}
DeclaredFields(action) ==
  CASE action = "navigate" -> {"url"}
    [] action = "type" -> {"selector", "text"}
    [] action \in {"click", "extract"} -> {"selector"}
    [] OTHER -> {}

\* this.schema.parse(input) does not throw: the input is an object and
\* every declared key holds a string (the empty string included)
SchemaAccepts(action, args) ==
  /\ args.kind = "object"
  /\ \A f \in DeclaredFields(action) :
       f \in DOMAIN args /\ IsString(args[f])

\* what this.schema.parse(input) returns when it accepts: z.object keeps
\* the declared keys and strips every other key of the input
SchemaParse(action, args) ==
  [f \in DeclaredFields(action) \cup {"kind"} |-> args[f]]

\* src/unnamed/part_003:67,70: retryCount after a successful action
RetryAfterSuccess(rc) == 0

\* The increment of line 11 doubled.
NavLoopIncrementByTwo(n) == n + 2

\* src/unnamed/part_003:11
NavLoopIncrement(n) == n + 1

\* src/unnamed/part_003:12
NavLoopTripped(n) == n > NavLoopLimit

\* The same-URL test never succeeding.
AlreadyOnTargetNever(args, u) == FALSE

\* src/unnamed/part_003:18: typeof args.url === 'string' && currentUrl === args.url
AlreadyOnTarget(args, u) == "url" \in DOMAIN args /\ u = args.url

\* src/unnamed/part_003:1-77
takeActionNode ==
  LET action == nextAction
      args   == nextArgs
      nav    == action = "navigate"
      n1     == IF nav THEN NavLoopIncrement(navLoopCount) ELSE navLoopCount
      pg     == IF nav THEN {"page"} ELSE {}
      same   == nav /\ AlreadyOnTarget(args, url)
      n2     == IF nav /\ ~NavLoopTripped(n1) /\ ~same THEN 0 ELSE n1
  IN
  /\ Dispatch("takeActionNode")
  /\ passReply' = NoReply /\ passArgs' = NoArgs
  /\ \/ \* 9: page.url() throws, outside the try block
        /\ nav
        /\ Throws
        /\ passCalls' = {"page"} /\ passTools' = <<>> /\ passSteps' = <<>>
        /\ UNCHANGED <<retryCount, stepCount, navLoopCount, steps,
                       actionsTaken, error, extracted, url>>
     \/ \* 12-16: navigation-loop guard
        /\ nav /\ NavLoopTripped(n1)
        /\ Goto("errorHandlingNode")
        /\ navLoopCount' = n1
        /\ error' = NavLoopErr
        /\ passCalls' = pg /\ passTools' = <<>> /\ passSteps' = <<>>
        /\ UNCHANGED <<retryCount, stepCount, steps, actionsTaken, extracted,
                       url>>
     \/ \* 18-22: already on the target URL
        /\ nav /\ ~NavLoopTripped(n1) /\ same
        /\ Goto("analyzePageNode")
        /\ navLoopCount' = n1
        /\ actionsTaken' = PushAction(actionsTaken, action)
        /\ passCalls' = pg /\ passTools' = <<>> /\ passSteps' = <<>>
        /\ UNCHANGED <<retryCount, stepCount, steps, error, extracted, url>>
     \/ \* 55-57: finish
        /\ action = "finish"
        /\ Goto("checkCompletionNode")
        /\ passCalls' = {} /\ passTools' = <<>> /\ passSteps' = <<>>
        /\ UNCHANGED <<retryCount, stepCount, navLoopCount, steps,
                       actionsTaken, error, extracted, url>>
     \/ \* 58-60, 72-76: unknown action; 34-52, 72-76: the tool call fails
        /\ ~(nav /\ (NavLoopTripped(n1) \/ same))
        /\ action # "finish"
        /\ Goto("errorHandlingNode")
        /\ navLoopCount' = n2
        /\ error' = IF action \in {"navigate", "type", "click", "extract"}
                      THEN ToolErr ELSE ReplyErr
        /\ passCalls' = pg \cup (IF ToolOf(action) # "none" THEN {"tool"} ELSE {})
        /\ passTools' = <<>> /\ passSteps' = <<>>
        /\ UNCHANGED <<retryCount, stepCount, steps, actionsTaken, extracted,
                       url>>
     \/ \* 36-54, 63, 70-71: type / click / extract succeeds
        /\ action \in {"type", "click", "extract"}
        /\ SchemaAccepts(action, args)
        /\ Goto("extractInfoNode")
        /\ actionsTaken' = PushAction(actionsTaken, action)
        /\ extracted' = IF action = "extract" THEN "result" ELSE extracted
        /\ retryCount' = RetryAfterSuccess(retryCount)
        /\ passCalls' = {"tool"} /\ passTools' = <<ToolOf(action)>>
        /\ passSteps' = <<>>
        /\ UNCHANGED <<stepCount, navLoopCount, steps, error, url>>
     \/ \* 30-35, 63-69: navigate succeeds, extractInfoNode runs inside
        /\ nav /\ ~NavLoopTripped(n1) /\ ~same
        /\ SchemaAccepts(action, args)
        /\ navLoopCount' = n2
        /\ actionsTaken' = PushAction(actionsTaken, action)
        /\ \E r \in extractInfoResults(workflow, steps, stepCount, args.url,
                                       task, args) :
             /\ passCalls' = {"page", "tool"} \cup r.calls
             /\ passTools' = <<"navigate_to_url">> \o r.tools
             /\ passSteps' = IF r.thrown THEN <<>> ELSE r.added
             /\ url' = r.url
             /\ IF r.thrown
                  THEN \* 72-76: the exception is caught here
                       /\ Goto("errorHandlingNode")
                       /\ error' = BrowserErr
                       /\ UNCHANGED <<retryCount, stepCount, steps>>
                  ELSE /\ Goto("extractInfoNode")
                       /\ retryCount' = RetryAfterSuccess(retryCount)
                       /\ steps' = r.steps
                       /\ stepCount' = r.stepCount
                       /\ error' = IF r.error = "keep" THEN error ELSE r.error
        /\ UNCHANGED extracted
  /\ UNCHANGED <<extractionVars, toolVars, searchVars, orchVars>>
  /\ UNCHANGED <<workflow, task, finalResult, nextAction, nextArgs, plan>>

\* Replies of the model to the completion prompt: the call rejects, or one
\* of these texts.
FinishText == "{\"action\":\"finish\"}"
CheckReplies == {"rejects", "YES", "no", "oh yEs!", "y e s", "ye", "",
                 FinishText}

\* The characters of a reply text.
CharsOf(reply) ==
  CASE reply = "YES"     -> <<"Y", "E", "S">>
    [] reply = "no"      -> <<"n", "o">>
    [] reply = "oh yEs!" -> <<"o", "h", " ", "y", "E", "s", "!">>
    [] reply = "y e s"   -> <<"y", " ", "e", " ", "s">>
    [] reply = "ye"      -> <<"y", "e">>
    [] reply = ""        -> <<>>
    [] reply = FinishText ->
         <<"{", "\"", "a", "c", "t", "i", "o", "n", "\"", ":", "\"", "f", "i",
           "n", "i", "s", "h", "\"", "}">>

\* the /i flag: a letter matches in either case
LowerCase(c) ==
  CASE c = "Y" -> "y" [] c = "E" -> "e" [] c = "S" -> "s" [] OTHER -> c

\* /yes/.test without the i flag
ContainsYesCaseSensitive(reply) ==
  LET cs == CharsOf(reply) IN
  \E i \in 1..(Len(cs) - 2) :
    cs[i] = "y" /\ cs[i + 1] = "e" /\ cs[i + 2] = "s"

\* src/unnamed/part_002:6: /yes/i.test(checkResult.content)
ContainsYes(reply) ==
  LET cs == CharsOf(reply) IN
  \E i \in 1..(Len(cs) - 2) :
    /\ LowerCase(cs[i]) = "y"
    /\ LowerCase(cs[i + 1]) = "e"
    /\ LowerCase(cs[i + 2]) = "s"

\* src/unnamed/part_002:1-12
checkCompletionNode ==
  /\ Dispatch("checkCompletionNode")
  /\ passCalls' = {"llm"}
  /\ passTools' = <<>>
  /\ passSteps' = <<>>
  /\ \E reply \in CheckReplies :
       /\ passReply' = reply /\ passArgs' = NoArgs
       /\ CASE reply = "rejects" -> Throws /\ UNCHANGED finalResult
            [] reply # "rejects" /\ ContainsYes(reply) ->
                 Goto("endNode") /\ finalResult' = <<reply>>
            [] OTHER -> Goto("extractInfoNode") /\ UNCHANGED finalResult
  /\ UNCHANGED <<extractionVars, toolVars, searchVars, orchVars>>
  /\ UNCHANGED <<workflow, task, retryCount, stepCount, navLoopCount, steps,
                 actionsTaken, error, nextAction, nextArgs, extracted, plan,
                 url>>

\* src/nodes/endNode.js:1-16
endNode ==
  /\ Dispatch("endNode")
  /\ done' = TRUE
  /\ UNCHANGED <<currentNode, crashed>>
  /\ passCalls' = {}
  /\ passTools' = <<>>
  /\ passSteps' = <<>>
  /\ passReply' = NoReply /\ passArgs' = NoArgs
  /\ UNCHANGED <<extractionVars, toolVars, searchVars, orchVars>>
  /\ UNCHANGED <<workflow, task, retryCount, stepCount, navLoopCount, steps,
                 actionsTaken, error, finalResult, nextAction, nextArgs,
                 extracted, plan, url>>

\* ----------------------------------------------- extractWithSelectorNode
\* el.textContent of element idx of the elements matching sel: distinct
\* text per element, or white space only
TextContent(d, sel, idx) ==
  IF d[sel].texts[idx + 1] THEN sel \o "#" \o ToString(idx) ELSE " "

\* err.message of a rejected page.waitForSelector(sel)
WaitError(sel) == "Waiting for selector failed: " \o sel

\* src/nodes/extractIndexFromTask.js:21-30, 48-57, 72-81: one attempt.
\* waitForSelector rejects when nothing matches; otherwise the text of
\* element idx is read, if there is such an element.
TryExtract(d, sel, idx) ==
  IF ~d[sel].present
    THEN [outcome |-> "fails", text |-> WaitError(sel)]
  ELSE IF Len(d[sel].texts) > idx /\ idx >= 0
          /\ Trim(TextContent(d, sel, idx)) # ""
    THEN [outcome |-> "text", text |-> Trim(TextContent(d, sel, idx))]
  ELSE [outcome |-> "blank", text |-> ""]

\* src/nodes/extractIndexFromTask.js:45,69: fallback.selector + fallback.index
TriedKey(c) == c.selector \o ToString(c.index)

\* The scan in list order only, ignoring extractionIndex.
ScanOrderListOnly(n, idx) == [i \in 1..n |-> i - 1]

\* src/nodes/extractIndexFromTask.js:43-44, 66-68: the positions of the
\* candidate list in the order the node visits them
ScanOrder(n, idx) ==
  LET inRange == idx >= 0 /\ idx < n
      rest == SelectSeq([i \in 1..n |-> i - 1],
                        LAMBDA i : ~(inRange /\ i = idx))
  IN IF inRange THEN <<idx>> \o rest ELSE rest

\* src/nodes/extractIndexFromTask.js:89
FailureResult(lastError) ==
  <<"Extraction failed: ",
    IF lastError # "null" THEN lastError ELSE "No candidates matched.">>

\* src/nodes/extractIndexFromTask.js:40-87: the scan of the candidates at
\* the positions left, with the tried-set, the last error and the attempts
\* made so far
RECURSIVE ScanCandidates(_, _, _, _, _, _)
ScanCandidates(d, cands, positions, tried, lastError, made) ==
  IF positions = <<>>
    THEN [thrown |-> FALSE, finalResult |-> FailureResult(lastError),
          attempts |-> made]
  ELSE
    LET c == cands[Head(positions) + 1]
        r == TryExtract(d, c.selector, c.index)
    IN IF TriedKey(c) \in tried
         THEN ScanCandidates(d, cands, Tail(positions), tried, lastError, made)
       ELSE IF r.outcome = "text"
         THEN [thrown |-> FALSE, finalResult |-> <<r.text>>,
               attempts |-> Append(made, <<c.selector, c.index>>)]
       ELSE ScanCandidates(d, cands, Tail(positions),
                           tried \cup {TriedKey(c)},
                           IF r.outcome = "fails" THEN r.text ELSE lastError,
                           Append(made, <<c.selector, c.index>>))

\* src/nodes/extractIndexFromTask.js:13-90
ExtractWithSelector(ex, d) ==
  LET first == TryExtract(d, ex.selector, ex.index)
      lastError == IF first.outcome = "fails" THEN first.text ELSE "null"
      made == <<<<ex.selector, ex.index>>>>
  IN IF first.outcome = "text"
       THEN [thrown |-> FALSE, finalResult |-> <<first.text>>,
             attempts |-> made]                                     \* 26-29
     ELSE IF ~ex.listed
       THEN \* 39: candidateSelectors.length of undefined
            [thrown |-> TRUE, finalResult |-> NoResult, attempts |-> made]
     ELSE ScanCandidates(d, ex.candidates,
                         ScanOrder(Len(ex.candidates), ex.index),
                         {}, lastError, made)

\* the controller dispatches extractWithSelectorNode
extractWithSelectorNode ==
  /\ Dispatch("extractWithSelectorNode")
  /\ LET r == ExtractWithSelector(extraction, dom) IN
       /\ IF r.thrown THEN Throws /\ UNCHANGED finalResult
                      ELSE Goto("endNode") /\ finalResult' = r.finalResult
       /\ attempts' = r.attempts
  /\ passCalls' = {"page"}
  /\ passTools' = <<>>
  /\ passSteps' = <<>>
  /\ passReply' = NoReply /\ passArgs' = NoArgs
  /\ UNCHANGED <<extraction, dom>>
  /\ UNCHANGED <<toolVars, searchVars, orchVars>>
  /\ UNCHANGED <<workflow, task, retryCount, stepCount, navLoopCount, steps,
                 actionsTaken, error, nextAction, nextArgs, extracted, plan,
                 url>>

\* ---------------------------------------------------------- specification
Next ==
  \/ startNode
  \/ planNode
  \/ extractInfoNode
  \/ analyzePageNode
  \/ takeActionNode
  \/ errorHandlingNode
  \/ checkCompletionNode
  \/ endNode
  \/ UnknownNode

Spec == Init /\ [][Next]_vars

\* The controller is a sequential loop and every awaited call returns or
\* fails in finite time, so a dispatch that is possible is eventually made.
FairSpec == Spec /\ WF_vars(Next)

\* The pages the selector extraction can meet: each selector matches
\* nothing, or up to two elements, each with or without text.
Doms ==
  [Selectors -> {[present |-> FALSE, texts |-> <<>>]} \cup
                {[present |-> TRUE, texts |-> t] :
                   t \in UNION {[1..n -> BOOLEAN] : n \in 0..2}}]

\* candidate entries {selector, index}
Candidates == [selector : Selectors, index : ElementIndexes]

CandidateLists == UNION {[1..n -> Candidates] : n \in 0..MaxCandidates}

\* context.extractionSelector / extractionIndex / candidateSelectors as a
\* caller can hand them over: the list present or undefined
Extractions ==
  {[selector |-> sel, index |-> idx, listed |-> TRUE, candidates |-> cands] :
     sel \in Selectors, idx \in 0..MaxCandidates, cands \in CandidateLists}
  \cup
  {[selector |-> sel, index |-> idx, listed |-> FALSE, candidates |-> <<>>] :
     sel \in Selectors, idx \in 0..MaxCandidates}

\* The controller about to dispatch extractWithSelectorNode: an
\* extractInfoNode pass has returned nextNode 'extractWithSelectorNode'
\* (test.js:796) with the extraction fields set.
SelectorInit ==
  /\ workflow = "selector"
  /\ task = TaskQuoted
  /\ currentNode = "extractWithSelectorNode"
  /\ lastNode = "extractInfoNode"
  /\ done = FALSE
  /\ crashed = FALSE
  /\ retryCount = 0
  /\ stepCount = 0
  /\ navLoopCount = 0
  /\ steps = {}
  /\ actionsTaken = <<>>
  /\ error = NoError
  /\ finalResult = NoResult
  /\ nextAction = Unset
  /\ nextArgs = [kind |-> "undefined"]
  /\ extracted = Unset
  /\ plan = [plan |-> "unset", refined_query |-> "unset"]
  /\ url = DuckUrl
  /\ passCalls = {"page", "llm"}
  /\ passTools = <<>>
  /\ passSteps = <<>>
  /\ passReply = "selector, index"
  /\ passArgs = [kind |-> "undefined"]
  /\ extraction \in Extractions
  /\ dom \in Doms
  /\ attempts = <<>>
  /\ ToolIdle
  /\ SearchIdle
  /\ OrchIdle

SelectorNext == extractWithSelectorNode \/ endNode

SelectorSpec == SelectorInit /\ [][SelectorNext]_vars

\* Inputs on which two distinct pairs have the same key selector + index:
\* 'a' + 10 and 'a1' + 0 are both 'a10'.
KeySelectors == {"a", "a1"}

KeyIndexes == {0, 10}

\* pages on which 'a' matches nothing or eleven elements, of which the
\* first and the last may have text, and 'a1' nothing, or one element
KeyDoms ==
  {[sel \in KeySelectors |-> IF sel = "a" THEN da ELSE db] :
     da \in {[present |-> FALSE, texts |-> <<>>]} \cup
            {[present |-> TRUE,
              texts |-> [i \in 1..11 |-> (i = 1 /\ b0) \/ (i = 11 /\ b10)]] :
               b0 \in BOOLEAN, b10 \in BOOLEAN},
     db \in {[present |-> FALSE, texts |-> <<>>]} \cup
            {[present |-> TRUE, texts |-> t] :
               t \in UNION {[1..n -> BOOLEAN] : n \in 0..1}}}

KeyCandidates == [selector : KeySelectors, index : KeyIndexes]

KeyCandidateLists == UNION {[1..n -> KeyCandidates] : n \in 0..MaxCandidates}

KeyExtractions ==
  {[selector |-> sel, index |-> idx, listed |-> TRUE, candidates |-> cands] :
     sel \in KeySelectors, idx \in 0..MaxCandidates,
     cands \in KeyCandidateLists}

\* as SelectorInit, on these inputs
SelectorKeyInit ==
  /\ workflow = "selector"
  /\ task = TaskQuoted
  /\ currentNode = "extractWithSelectorNode"
  /\ lastNode = "extractInfoNode"
  /\ done = FALSE
  /\ crashed = FALSE
  /\ retryCount = 0
  /\ stepCount = 0
  /\ navLoopCount = 0
  /\ steps = {}
  /\ actionsTaken = <<>>
  /\ error = NoError
  /\ finalResult = NoResult
  /\ nextAction = Unset
  /\ nextArgs = [kind |-> "undefined"]
  /\ extracted = Unset
  /\ plan = [plan |-> "unset", refined_query |-> "unset"]
  /\ url = DuckUrl
  /\ passCalls = {"page", "llm"}
  /\ passTools = <<>>
  /\ passSteps = <<>>
  /\ passReply = "selector, index"
  /\ passArgs = [kind |-> "undefined"]
  /\ extraction \in KeyExtractions
  /\ dom \in KeyDoms
  /\ attempts = <<>>
  /\ ToolIdle
  /\ SearchIdle
  /\ OrchIdle

SelectorKeySpec == SelectorKeyInit /\ [][SelectorNext]_vars

\* ---------------------------------------------------------------- tools
\* The values a field of an argument object can hold.
ArgValues == {"", " ", "#q", NotAString}

ArgFields == {"selector", "text", "url", "index"}

\* argument objects: any of the fields present or absent, with any value
ArgObjects ==
  {NoArgs} \cup
  UNION {{a \in [D \cup {"kind"} -> ArgValues \cup {"object"}] :
            a.kind = "object" /\ \A f \in D : a[f] \in ArgValues} :
         D \in SUBSET ArgFields}

\* src/tools.js:14-25, 33-62, 71-83, 91-113: call(input) parses the input
\* with the tool's schema (a ZodError leaves call when it is rejected) and
\* then drives the page, returning a message or throwing
callTool ==
  /\ parsed.status = "none"
  /\ IF SchemaAccepts(toolAction, toolInput)
       THEN \E ret \in BOOLEAN :
              parsed' = [status |-> "accepted",
                         input |-> SchemaParse(toolAction, toolInput),
                         returned |-> ret]
       ELSE parsed' = [status |-> "rejected"]
  /\ UNCHANGED <<toolAction, toolInput>>
  /\ UNCHANGED <<workflowVars, extractionVars, searchVars, orchVars>>

\* a tool is called with an action's argument object
ToolInit ==
  /\ WorkflowIdle
  /\ toolAction \in {"navigate", "type", "click", "extract"}
  /\ toolInput \in ArgObjects
  /\ parsed = [status |-> "none"]
  /\ SearchIdle
  /\ OrchIdle

ToolNext == callTool

ToolSpec == ToolInit /\ [][ToolNext]_vars

\* --------------------------------------------------- searchDuckDuckGo
\* src/nodes/multiAgentOrchestrator.js:12: maxPages = 3
maxPages == 3

\* src/nodes/multiAgentOrchestrator.js:46: .slice(0, 7)
BlockCap == 7

\* src/nodes/multiAgentOrchestrator.js:100: allResults.slice(0, 15)
ResultCap == 15

\* The url field of the object the model extracts from a result block.
UrlValues == {"http://a.example", "https://b.example", "httpx", "ftp://c.example",
              "b.example", NotAString}

\* src/nodes/multiAgentOrchestrator.js:62: obj.url.startsWith('http')
StartsWithHttp(u) == u \in {"http://a.example", "https://b.example", "httpx"}

\* What callLLM gives for one block (lines 52-60): it rejects, or returns
\* text in which no JSON object is found (obj undefined), or JSON null, or
\* an object without url, or an object with a url field.
BlockReplies ==
  {[kind |-> "rejects"], [kind |-> "notjson"], [kind |-> "null"],
   [kind |-> "object"]} \cup
  {[kind |-> "object", url |-> u] : u \in UrlValues}

\* src/nodes/multiAgentOrchestrator.js:62
KeepsResult(reply) ==
  /\ reply.kind = "object"
  /\ "url" \in DOMAIN reply
  /\ IsString(reply.url)
  /\ StartsWithHttp(reply.url)

\* allResults is modelled by its length and the set of urls in it.
\* src/nodes/multiAgentOrchestrator.js:63: allResults.push(obj)
PushResult(all, reply) ==
  [count |-> all.count + 1, urls |-> all.urls \cup {reply.url}]

\* src/nodes/multiAgentOrchestrator.js:100: allResults.slice(0, 15); the
\* urls of the slice are among the urls of allResults
SliceResults(all) ==
  [count |-> IF all.count < ResultCap THEN all.count ELSE ResultCap,
   urls |-> all.urls]

\* src/nodes/multiAgentOrchestrator.js:27: hasNext && currentPage <= maxPages
SearchLoopContinuesOnePastCap(hn, cp) == hn /\ cp <= maxPages + 1
SearchLoopContinues(hn, cp) == hn /\ cp <= maxPages

\* src/nodes/multiAgentOrchestrator.js:13-25: open the page and submit the
\* query; any of the awaited calls can reject
searchSetup ==
  /\ searchPc = "start"
  /\ \E ok \in BOOLEAN : searchPc' = IF ok THEN "loop" ELSE "threw"
  /\ UNCHANGED <<currentPage, hasNext, blocksLeft, allResults, pagesProcessed,
                 searchReturn>>
  /\ UNCHANGED <<workflowVars, extractionVars, toolVars, orchVars>>

\* src/nodes/multiAgentOrchestrator.js:27-46 and 99-100: the loop test; a
\* further iteration reads the page and cuts it into at most 7 blocks,
\* otherwise the function returns the first 15 results
searchPage ==
  /\ searchPc = "loop"
  /\ IF SearchLoopContinues(hasNext, currentPage)
       THEN /\ pagesProcessed' = pagesProcessed + 1
            /\ \/ searchPc' = "threw" /\ UNCHANGED blocksLeft
               \/ \E n \in 0..BlockCap :
                    searchPc' = "blocks" /\ blocksLeft' = n
            /\ UNCHANGED searchReturn
       ELSE /\ searchPc' = "returned"
            /\ searchReturn' = SliceResults(allResults)
            /\ UNCHANGED <<pagesProcessed, blocksLeft>>
  /\ UNCHANGED <<currentPage, hasNext, allResults>>
  /\ UNCHANGED <<workflowVars, extractionVars, toolVars, orchVars>>

\* src/nodes/multiAgentOrchestrator.js:49-68: one block of the page
searchBlock ==
  /\ searchPc = "blocks"
  /\ blocksLeft > 0
  /\ blocksLeft' = blocksLeft - 1
  /\ \E reply \in BlockReplies :
       allResults' = IF KeepsResult(reply)
                       THEN PushResult(allResults, reply)
                       ELSE allResults
  /\ UNCHANGED <<searchPc, currentPage, hasNext, pagesProcessed, searchReturn>>
  /\ UNCHANGED <<workflowVars, extractionVars, toolVars, orchVars>>

\* src/nodes/multiAgentOrchestrator.js:70-97: look for the Next button
\* and follow it
searchPaginate ==
  /\ searchPc = "blocks"
  /\ blocksLeft = 0
  /\ \/ \* page.evaluate rejects (line 71)
        /\ searchPc' = "threw"
        /\ UNCHANGED <<hasNext, currentPage>>
     \/ \* no Next button
        /\ searchPc' = "loop"
        /\ hasNext' = FALSE
        /\ UNCHANGED currentPage
     \/ \* the click and the navigation succeed (lines 82-92)
        /\ searchPc' = "loop"
        /\ hasNext' = TRUE
        /\ currentPage' = currentPage + 1
     \/ \* the navigation fails (lines 93-96)
        /\ searchPc' = "loop"
        /\ hasNext' = FALSE
        /\ UNCHANGED currentPage
  /\ UNCHANGED <<blocksLeft, allResults, pagesProcessed, searchReturn>>
  /\ UNCHANGED <<workflowVars, extractionVars, toolVars, orchVars>>

\* searchDuckDuckGo(query, browser) is called
SearchInit ==
  /\ WorkflowIdle
  /\ ToolIdle
  /\ OrchIdle
  /\ searchPc = "start"
  /\ currentPage = 1
  /\ hasNext = TRUE
  /\ blocksLeft = 0
  /\ allResults = [count |-> 0, urls |-> {}]
  /\ pagesProcessed = 0
  /\ searchReturn = [count |-> 0, urls |-> {}]

SearchNext == searchSetup \/ searchPage \/ searchBlock \/ searchPaginate

SearchSpec == SearchInit /\ [][SearchNext]_vars

\* Every awaited call of the function settles: the waits carry timeouts
\* and the model call returns or rejects.
FairSearchSpec == SearchSpec /\ WF_vars(SearchNext)

\* ------------------------------------------------ orchestrateExtraction
\* A search result {title, url, snippet}: the url is a string starting
\* with 'http' (line 62); the snippet is whatever the model put there.
SnippetKinds == {"absent", "text", "nonstring"}

ResultAt(i, sn) ==
  CASE sn = "absent" -> [url |-> "https://result" \o ToString(i)]
    [] sn = "text" -> [url |-> "https://result" \o ToString(i),
                       snippet |-> "snippet text"]
    [] OTHER -> [url |-> "https://result" \o ToString(i),
                 snippet |-> NotAString]

\* what searchDuckDuckGo can return (line 179)
ResultLists ==
  UNION {{[i \in 1..n |-> ResultAt(i, k[i])] : k \in [1..n -> SnippetKinds]} :
           n \in 0..MaxResults}

\* src/nodes/multiAgentOrchestrator.js:134-140: the keys of the schema
SchemaFields ==
  {"Description", "Main Contributors/Organizations", "Year", "Source URL",
   "Notable Applications/Impact"}

\* objects the model can answer with
FullObject == [f \in SchemaFields |-> "from the model"]
ExtraKeyObject == [f \in SchemaFields \cup {"Confidence"} |-> "from the model"]
YearNumberObject == [FullObject EXCEPT !["Year"] = NotAString]
NoDescriptionObject == [f \in SchemaFields \ {"Description"} |-> "from the model"]

\* src/nodes/multiAgentOrchestrator.js:131: callLLM rejects, or returns
\* text that is not JSON, or JSON text
Responses ==
  {[kind |-> "rejects"], [kind |-> "text"],
   [kind |-> "json", value |-> [type |-> "null"]]} \cup
  {[kind |-> "json", value |-> [type |-> "object", fields |-> o]] :
     o \in {FullObject, ExtraKeyObject, YearNumberObject, NoDescriptionObject}}

\* src/nodes/multiAgentOrchestrator.js:143: schema.parse does not throw
RecordSchemaAccepts(v) ==
  /\ v.type = "object"
  /\ \A f \in SchemaFields : f \in DOMAIN v.fields /\ IsString(v.fields[f])

\* src/nodes/multiAgentOrchestrator.js:143: what schema.parse returns
RecordSchemaParse(v) == [f \in SchemaFields |-> v.fields[f]]

\* snippet || ''
SnippetOrEmpty(r) ==
  IF "snippet" \in DOMAIN r /\ r.snippet # "" THEN r.snippet ELSE ""

\* src/nodes/multiAgentOrchestrator.js:145-151
DefaultRecord(r) ==
  [f \in SchemaFields |->
     CASE f = "Description" -> SnippetOrEmpty(r)
       [] f = "Source URL" -> r.url
       [] OTHER -> "N/A"]

\* src/nodes/multiAgentOrchestrator.js:141-153
Structured(r, resp) ==
  IF resp.kind = "json" /\ RecordSchemaAccepts(resp.value)
    THEN RecordSchemaParse(resp.value)
    ELSE DefaultRecord(r)

NoRecord == <<>>

\* an extractBreakthroughFromPage call that has just been made; order is
\* the position of the task among the settled ones (0 while it is pending)
NewTask ==
  [pc |-> "loading", content |-> "pending", response |-> [kind |-> "none"],
   record |-> NoRecord, order |-> 0]

\* how many of the tasks have settled
Settled(ts) == Cardinality({j \in DOMAIN ts : ts[j].pc \in {"done", "failed"}})

\* src/nodes/multiAgentOrchestrator.js:213: the finally block is entered
\* with a value to return or an exception to rethrow
Throwing == [status |-> "throwing"]

\* src/nodes/multiAgentOrchestrator.js:177: puppeteer.launch, outside try
orchLaunch ==
  /\ orchPc = "start"
  /\ \/ orchPc' = "search" /\ browserOpen' = TRUE /\ UNCHANGED report
     \/ orchPc' = "threw" /\ report' = [status |-> "threw"]
        /\ UNCHANGED browserOpen
  /\ UNCHANGED <<results, tasks, breakthroughs>>
  /\ UNCHANGED <<workflowVars, extractionVars, toolVars, searchVars>>

\* src/nodes/multiAgentOrchestrator.js:179-203: the search stage; no
\* results ends in the thrown 'No search results' error, otherwise
\* results.map starts one extraction task per result
orchSearch ==
  /\ orchPc = "search"
  /\ \/ \* searchDuckDuckGo rejects
        /\ orchPc' = "closing" /\ report' = Throwing
        /\ UNCHANGED <<results, tasks>>
     \/ \E found \in ResultLists :
          /\ results' = found
          /\ IF Len(found) = 0
               THEN orchPc' = "closing" /\ report' = Throwing
                    /\ UNCHANGED tasks
               ELSE orchPc' = "extract"
                    /\ tasks' = [i \in 1..Len(found) |-> NewTask]
                    /\ UNCHANGED report
  /\ UNCHANGED <<breakthroughs, browserOpen>>
  /\ UNCHANGED <<workflowVars, extractionVars, toolVars, searchVars>>

\* src/nodes/multiAgentOrchestrator.js:108-131: task i loads the page: the
\* loader, else a page of the shared browser, else the snippet; then it
\* calls the model
taskLoad(i) ==
  /\ i \in DOMAIN tasks
  /\ tasks[i].pc = "loading"
  /\ \E c \in {"loader", "fallback", "snippet"} :
       /\ c = "fallback" => browserOpen
       /\ tasks' = [tasks EXCEPT ![i].pc = "llm", ![i].content = c]
  /\ UNCHANGED <<orchPc, results, breakthroughs, browserOpen, report>>
  /\ UNCHANGED <<workflowVars, extractionVars, toolVars, searchVars>>

AllDone(ts) == \A j \in DOMAIN ts : ts[j].pc = "done"

\* the array Promise.all would resolve to if it took the values in the
\* order in which the promises settle
PromiseAllInSettlementOrder(ts) ==
  [j \in DOMAIN ts |-> ts[CHOOSE k \in DOMAIN ts : ts[k].order = j].record]

\* src/nodes/multiAgentOrchestrator.js:201-203: Promise.all resolves to the
\* array of the tasks' values at the positions of results.map
PromiseAll(ts) == [j \in DOMAIN ts |-> ts[j].record]

\* src/nodes/multiAgentOrchestrator.js:131-153 and 201-203: the model call
\* of task i settles.  A rejection leaves the task (line 131 is in no try)
\* and rejects Promise.all at once, so orchestrateExtraction goes to its
\* finally block; the last task to return resolves Promise.all.
taskSettle(i) ==
  /\ i \in DOMAIN tasks
  /\ tasks[i].pc = "llm"
  /\ \E resp \in Responses :
       IF resp.kind = "rejects"
         THEN /\ tasks' = [tasks EXCEPT ![i].pc = "failed",
                                         ![i].response = resp,
                                         ![i].order = Settled(tasks) + 1]
              /\ IF orchPc = "extract"
                   THEN orchPc' = "closing" /\ report' = Throwing
                   ELSE UNCHANGED <<orchPc, report>>
              /\ UNCHANGED breakthroughs
         ELSE /\ tasks' = [tasks EXCEPT
                             ![i].pc = "done",
                             ![i].response = resp,
                             ![i].record = Structured(results[i], resp),
                             ![i].order = Settled(tasks) + 1]
              /\ IF orchPc = "extract" /\ AllDone(tasks')
                   THEN /\ orchPc' = "trends"
                        /\ breakthroughs' = PromiseAll(tasks')
                   ELSE UNCHANGED <<orchPc, breakthroughs>>
              /\ UNCHANGED report
  /\ UNCHANGED <<results, browserOpen>>
  /\ UNCHANGED <<workflowVars, extractionVars, toolVars, searchVars>>

\* src/nodes/multiAgentOrchestrator.js:158-162, 206: analyzeTrends
orchTrends ==
  /\ orchPc = "trends"
  /\ \/ orchPc' = "report" /\ UNCHANGED report
     \/ orchPc' = "closing" /\ report' = Throwing
  /\ UNCHANGED <<results, tasks, breakthroughs, browserOpen>>
  /\ UNCHANGED <<workflowVars, extractionVars, toolVars, searchVars>>

\* src/nodes/multiAgentOrchestrator.js:165-172, 209-211: compileReport
\* writes one table row per record, in order; b.Description.slice throws
\* a TypeError when Description is not a string
orchReport ==
  /\ orchPc = "report"
  /\ orchPc' = "closing"
  /\ report' =
       IF \A j \in DOMAIN breakthroughs :
            IsString(breakthroughs[j]["Description"])
         THEN [status |-> "returning", rows |-> breakthroughs]
         ELSE Throwing
  /\ UNCHANGED <<results, tasks, breakthroughs, browserOpen>>
  /\ UNCHANGED <<workflowVars, extractionVars, toolVars, searchVars>>

\* src/nodes/multiAgentOrchestrator.js:212-214: finally, browser.close()
orchClose ==
  /\ orchPc = "closing"
  /\ browserOpen' = FALSE
  /\ IF report.status = "returning"
       THEN orchPc' = "returned"
            /\ report' = [report EXCEPT !.status = "returned"]
       ELSE orchPc' = "threw" /\ report' = [status |-> "threw"]
  /\ UNCHANGED <<results, tasks, breakthroughs>>
  /\ UNCHANGED <<workflowVars, extractionVars, toolVars, searchVars>>

\* orchestrateExtraction(query, llm) is called
OrchInit ==
  /\ WorkflowIdle
  /\ ToolIdle
  /\ SearchIdle
  /\ orchPc = "start"
  /\ results = <<>>
  /\ tasks = <<>>
  /\ breakthroughs = <<>>
  /\ browserOpen = FALSE
  /\ report = [status |-> "none"]

OrchNext ==
  \/ orchLaunch
  \/ orchSearch
  \/ \E i \in 1..MaxResults : taskLoad(i)
  \/ \E i \in 1..MaxResults : taskSettle(i)
  \/ orchTrends
  \/ orchReport
  \/ orchClose

OrchSpec == OrchInit /\ [][OrchNext]_vars

\* ------------------------------------------------------------------ claims
Breaches == {StepLimitErr, NavLoopErr}

\* C1: under the controller loop every run eventually stops, for every
\* sequence of model replies and browser outcomes.  Stated generously: the
\* run ends in endNode with done = true, or at least ends by an exception
\* leaving the controller.
C1_RunStops == <>(done \/ crashed)

\* C2: when a node X other than errorHandlingNode has routed to
\* errorHandlingNode and the incremented retryCount is below 3, the node
\* dispatched next is X.
C2_ResumesFailedNode ==
  [][(/\ currentNode = "errorHandlingNode"
      /\ lastNode # "errorHandlingNode"
      /\ retryCount + 1 < RetryLimit) => currentNode' = lastNode]_vars

\* C3: retryCount grows by exactly 1 on each errorHandlingNode pass and in
\* no other pass, stays within 0..3, and the pass that brings it to 3 sets
\* finalResult to 'Error: ' + error and hands over to endNode, which ends
\* the run with done = true and that finalResult.
C3_RetryCeiling ==
  /\ [](retryCount \in 0..RetryLimit)
  /\ [][/\ currentNode = "errorHandlingNode" => retryCount' = retryCount + 1
        /\ retryCount' > retryCount => currentNode = "errorHandlingNode"
        /\ (retryCount' = RetryLimit /\ retryCount # RetryLimit) =>
             (finalResult' = <<"Error: ", error>> /\ currentNode' = "endNode")
        /\ (currentNode = "endNode" /\ retryCount = RetryLimit) =>
             (done' /\ finalResult' = finalResult
                    /\ Head(finalResult') = "Error: ")]_vars

C3_Witness ==
  done /\ retryCount = RetryLimit /\ Head(finalResult) = "Error: "

C5_StepCeiling ==
  /\ [](stepCount <= StepLimit)
  /\ [][/\ stepCount' >= stepCount
        /\ (currentNode = "extractInfoNode" /\ stepCount >= StepLimit) =>
             /\ passCalls' = {}
             /\ passTools' = <<>>
             /\ error' = StepLimitErr
             /\ currentNode' = "errorHandlingNode"
             /\ ~crashed']_vars

C5_Witness ==
  /\ lastNode = "extractInfoNode"
  /\ stepCount = StepLimit
  /\ error = StepLimitErr
  /\ currentNode = "errorHandlingNode"
  /\ passCalls = {}

\* C6: a pass that reports a breach of the step-count or navigation-loop
\* ceiling hands over to endNode at once, and no pass made while that error
\* stands increments retryCount.
C6_BreachFatalAtOnce ==
  [][/\ (error' \in Breaches /\ error \notin Breaches) =>
          currentNode' = "endNode"
     /\ error \in Breaches => retryCount' = retryCount]_vars

\* C7: an extractInfoNode pass in which a tool call returned normally gives
\* stepCount + 1 and nextNode = extractInfoNode; every other pass leaves
\* stepCount unchanged.
C7_StepCountTracksToolSuccess ==
  [][(currentNode = "extractInfoNode" /\ workflow = "modular") =>
       IF passTools' # <<>>
         THEN stepCount' = stepCount + 1 /\ currentNode' = "extractInfoNode"
         ELSE stepCount' = stepCount]_vars

\* C8: no node function lets an exception out to the controller.
C8_NoExceptionEscapes == ~(crashed /\ currentNode \in NodeNames)

\* C9: when a node returns nextNode null the controller stops dispatching
\* without raising 'Unknown node'.
C9_NullNextNodeCompletes == currentNode = NullNode => ~crashed

\* C10: endNode sets done = true; done is false until endNode has run and
\* never reverts; nothing is dispatched once done is true.
C10_EndTerminal ==
  /\ [](done => (lastNode = "endNode" /\ ~ENABLED Next))
  /\ [][/\ currentNode = "endNode" => done'
        /\ (done' /\ ~done) => currentNode = "endNode"
        /\ done => done']_vars

C10_Witness == done /\ lastNode = "endNode" /\ currentNode = "endNode"

\* a takeActionNode pass whose action is navigate and that returns
NavigatePass ==
  currentNode = "takeActionNode" /\ nextAction = "navigate" /\ ~crashed'

\* the navigate targets the URL the page is on
TargetIsCurrent == "url" \in DOMAIN nextArgs /\ nextArgs.url = url

\* C11: a takeActionNode pass with action navigate whose arguments.url equals
\* page.url(), the navigation-loop guard not being tripped, calls no tool,
\* leaves the page where it is and hands over to analyzePageNode.
C11_AlreadyThereSkipsNavigation ==
  [][(NavigatePass /\ TargetIsCurrent /\ navLoopCount + 1 <= NavLoopLimit) =>
       /\ "tool" \notin passCalls'
       /\ passTools' = <<>>
       /\ url' = url
       /\ currentNode' = "analyzePageNode"]_vars

C11_Witness ==
  /\ lastNode = "takeActionNode"
  /\ currentNode = "analyzePageNode"
  /\ nextAction = "navigate"
  /\ nextArgs = UrlArgs(OtherUrl)
  /\ url = OtherUrl
  /\ passTools = <<>>
  /\ navLoopCount = 1

\* C12: _navLoopCount grows by 1 on every takeActionNode pass whose action is
\* navigate and the target is the current URL, is reset to 0 only by a
\* navigate pass whose target differs from the current URL, and changes in
\* no other pass; when the incremented value exceeds 3 the pass calls no
\* tool and reports the navigation-loop error; no pass changes both
\* _navLoopCount and retryCount.
C12_NavLoopCounter ==
  [][/\ NavigatePass =>
          /\ navLoopCount' \in {navLoopCount + 1, 0}
          /\ navLoopCount' # navLoopCount + 1 => ~TargetIsCurrent
          /\ navLoopCount + 1 > NavLoopLimit =>
               /\ navLoopCount' = navLoopCount + 1
               /\ error' = NavLoopErr
               /\ currentNode' = "errorHandlingNode"
               /\ "tool" \notin passCalls'
               /\ passTools' = <<>>
     /\ ~(currentNode = "takeActionNode" /\ nextAction = "navigate") =>
          navLoopCount' = navLoopCount
     /\ navLoopCount' # navLoopCount => retryCount' = retryCount
     /\ retryCount' # retryCount => navLoopCount' = navLoopCount]_vars

C12_Witness ==
  /\ lastNode = "takeActionNode"
  /\ navLoopCount = NavLoopLimit + 1
  /\ error = NavLoopErr
  /\ currentNode = "errorHandlingNode"
  /\ passTools = <<>>

\* C13: takeActionNode reports the navigation-loop error only for a navigate
\* that targets the URL the page is on; a navigate whose target differs from
\* the current URL always has navigate_to_url called.
C13_AbortOnlyOnRepeat ==
  [][(NavigatePass /\ ~TargetIsCurrent) =>
       /\ "tool" \in passCalls'
       /\ ~(error' = NavLoopErr /\ currentNode' = "errorHandlingNode")]_vars

\* C14: when the model's reply in analyzePageNode names an action outside the
\* allowed set ('search', or navigate while the page is on the target URL),
\* analyzePageNode sets nextAction to 'type' with arguments {} and hands over
\* to takeActionNode instead of errorHandlingNode.
C14_InvalidSuggestionFallsBack ==
  [][(/\ currentNode = "analyzePageNode"
      /\ ~crashed'
      /\ \/ passReply' = "search"
         \/ passReply' = "navigate" /\ url = taskTargetUrl) =>
       /\ currentNode' = "takeActionNode"
       /\ nextAction' = "type"
       /\ nextArgs' = EmptyArgs]_vars

\* C15: after an analyzePageNode pass that hands over to takeActionNode,
\* nextAction is in the allowed set of that pass; while the page is on
\* taskTargetUrl, takeActionNode is not asked to navigate.
C15_NextActionAllowed ==
  /\ [][(currentNode = "analyzePageNode" /\ currentNode' = "takeActionNode") =>
          /\ nextAction' \in {"navigate", "type", "click", "extract", "finish"}
          /\ url = taskTargetUrl => nextAction' # "navigate"]_vars
  /\ []((/\ lastNode = "analyzePageNode"
         /\ currentNode = "takeActionNode"
         /\ url = taskTargetUrl) => nextAction # "navigate")

C15_Witness ==
  /\ lastNode = "analyzePageNode"
  /\ currentNode = "takeActionNode"
  /\ url = taskTargetUrl
  /\ passReply = "navigate"
  /\ nextAction = "type"
  /\ nextArgs = EmptyArgs

\* C16: when the model's reply in extractInfoNode is not JSON, or names no
\* action or one outside navigate/type/click/extract/finish, the pass calls
\* no tool, runs no forced sequence (the page stays where it is), leaves steps
\* and stepCount unchanged, sets error and routes to errorHandlingNode.
C16_InvalidReplyIsAnError ==
  [][(/\ currentNode = "extractInfoNode"
      /\ workflow = "modular"
      /\ passReply' \in {"notjson", "missing", "search"}) =>
       /\ "tool" \notin passCalls'
       /\ passTools' = <<>>
       /\ passSteps' = <<>>
       /\ steps' = steps
       /\ stepCount' = stepCount
       /\ url' = url
       /\ error' = ReplyErr
       /\ currentNode' = "errorHandlingNode"
       /\ ~crashed']_vars

C16_Witness ==
  /\ lastNode = "extractInfoNode"
  /\ passReply = "search"
  /\ url = DuckUrl
  /\ ~hasTyped(steps)
  /\ error = ReplyErr
  /\ currentNode = "errorHandlingNode"
  /\ passTools = <<>>

\* C17: checkCompletionNode hands over to endNode with finalResult equal to
\* the reply exactly when the reply contains 'yes' in any letter case
\* ("YES", "oh yEs!"); for every other reply ("no", "y e s", "ye", "", ...)
\* it hands over to extractInfoNode and leaves finalResult unchanged.
C17_YesEndsTheRun ==
  [][(currentNode = "checkCompletionNode" /\ ~crashed') =>
       IF passReply' \in {"YES", "oh yEs!"}
         THEN currentNode' = "endNode" /\ finalResult' = <<passReply'>>
         ELSE currentNode' = "extractInfoNode" /\ finalResult' = finalResult]_vars

C17_Witness ==
  /\ lastNode = "checkCompletionNode"
  /\ currentNode = "endNode"
  /\ passReply = "YES"
  /\ finalResult = <<"YES">>

\* the model has answered {action: 'finish'} to every prompt so far, and no
\* call has failed
FinishOnly ==
  ~crashed /\ passReply \in {NoReply, "object", "finish", FinishText}

\* C18: if the model answers {action: 'finish'} at every prompt, the run
\* reaches endNode with the model's completion text as finalResult.
C18_FinishReachesEnd ==
  ([]FinishOnly) => <>(done /\ finalResult = <<FinishText>>)

\* the (selector, index) pairs in the priority order of the contract: the
\* primary; the candidate at position extractionIndex, if in range; the
\* remaining candidates in list order
PriorityOrder ==
  LET n == Len(extraction.candidates)
      p == extraction.index + 1
      pair(i) == <<extraction.candidates[i].selector,
                   extraction.candidates[i].index>>
  IN <<<<extraction.selector, extraction.index>>>> \o
     (IF p <= n
        THEN <<pair(p)>> \o [k \in 1..(n - 1) |-> pair(IF k < p THEN k ELSE k + 1)]
        ELSE [k \in 1..n |-> pair(k)])

\* element pr[2] of the elements matching pr[1] exists and has text
YieldsText(pr) ==
  /\ dom[pr[1]].present
  /\ pr[2] < Len(dom[pr[1]].texts)
  /\ dom[pr[1]].texts[pr[2] + 1]

\* the first k entries of PriorityOrder, a candidate that repeats an earlier
\* candidate left out
DistinctPrefix(k) ==
  LET keep == {j \in 1..k :
                 j = 1 \/ \A i \in 2..(j - 1) : PriorityOrder[i] # PriorityOrder[j]}
      nth(m) == CHOOSE j \in keep : Cardinality({i \in keep : i < j}) = m - 1
  IN [m \in 1..Cardinality(keep) |-> PriorityOrder[nth(m)]]

\* C19: extractWithSelectorNode returns as finalResult the text of the first
\* entry of the priority order (primary; candidate at extractionIndex if in
\* range; remaining candidates in list order) that yields non-empty text, its
\* attempts are exactly the entries up to that one, in that order, and it
\* makes no attempt after the one that succeeded.
C19_FirstTextInPriorityOrder ==
  [][(/\ currentNode = "extractWithSelectorNode"
      /\ \E k \in 1..Len(PriorityOrder) : YieldsText(PriorityOrder[k])) =>
       LET k == CHOOSE j \in 1..Len(PriorityOrder) :
                  /\ YieldsText(PriorityOrder[j])
                  /\ \A i \in 1..(j - 1) : ~YieldsText(PriorityOrder[i])
           hit == PriorityOrder[k]
       IN /\ finalResult' = <<hit[1] \o "#" \o ToString(hit[2])>>
          /\ attempts' = DistinctPrefix(k)
          /\ attempts'[Len(attempts')] = hit
          /\ currentNode' = "endNode"]_vars

\* a failing primary, three candidates of which only the second yields
\* text: the result is its text and the third is not tried
C19_Witness ==
  /\ lastNode = "extractWithSelectorNode"
  /\ Len(extraction.candidates) = 3
  /\ ~YieldsText(PriorityOrder[1])
  /\ \A i \in 1..3 :
       YieldsText(<<extraction.candidates[i].selector,
                    extraction.candidates[i].index>>) <=> i = 2
  /\ finalResult = <<extraction.candidates[2].selector \o "#" \o
                       ToString(extraction.candidates[2].index)>>
  /\ attempts[Len(attempts)] =
       <<extraction.candidates[2].selector, extraction.candidates[2].index>>
  /\ Len(attempts) = 3
  /\ attempts[2] =
       <<extraction.candidates[1].selector, extraction.candidates[1].index>>
  /\ extraction.index = 3

\* C20: for every input, a missing candidate list included,
\* extractWithSelectorNode does not throw and returns nextNode = endNode with
\* finalResult the extracted text or 'Extraction failed: ' and a message.
C20_ExtractionNeverThrows ==
  [][currentNode = "extractWithSelectorNode" =>
       /\ ~crashed'
       /\ currentNode' = "endNode"
       /\ \/ Head(finalResult') = "Extraction failed: "
          \/ \E i \in 1..Len(attempts') :
               /\ YieldsText(attempts'[i])
               /\ finalResult' =
                    <<attempts'[i][1] \o "#" \o ToString(attempts'[i][2])>>]_vars

\* C21: within one extractWithSelectorNode resolution no (selector, index)
\* pair is attempted twice, the primary pair included.
C21_NoPairTriedTwice ==
  \A i, j \in 1..Len(attempts) : i # j => attempts[i] # attempts[j]

\* C22: when the arguments of the action the model chose violate
\* validateActionArgs (on a page where no forced sequence replaces the
\* action), extractInfoNode routes to errorHandlingNode without calling a
\* tool; the arguments are not filled in to make the call go ahead.
C22_InvalidArgsReported ==
  [][(/\ currentNode = "extractInfoNode"
      /\ workflow = "modular"
      /\ ~isDuck(url)
      /\ passReply' \in {"navigate", "type", "click", "extract"}
      /\ ~validateActionArgs(passReply', passArgs')) =>
       /\ currentNode' = "errorHandlingNode"
       /\ passTools' = <<>>
       /\ "tool" \notin passCalls']_vars
\* C23 as stated: whenever validateActionArgs(action, args) is true, the
\* tool's schema parser accepts args and yields the same object, unmodified.
C23_ParserYieldsSameObject ==
  (parsed.status # "none" /\ validateActionArgs(toolAction, toolInput)) =>
    /\ parsed.status = "accepted"
    /\ parsed.input = toolInput

\* C23 amended: whenever validateActionArgs(action, args) is true, the
\* tool's schema parser accepts args and yields the fields the action
\* requires (url; selector and text; selector) with their values unchanged;
\* every other field of args is dropped.
C23_ParserKeepsRequiredFields ==
  (parsed.status # "none" /\ validateActionArgs(toolAction, toolInput)) =>
    /\ parsed.status = "accepted"
    /\ parsed.input.kind = "object"
    /\ toolAction = "navigate" =>
         /\ DOMAIN parsed.input = {"kind", "url"}
         /\ parsed.input.url = toolInput.url
    /\ toolAction = "type" =>
         /\ DOMAIN parsed.input = {"kind", "selector", "text"}
         /\ parsed.input.selector = toolInput.selector
         /\ parsed.input.text = toolInput.text
    /\ toolAction \in {"click", "extract"} =>
         /\ DOMAIN parsed.input = {"kind", "selector"}
         /\ parsed.input.selector = toolInput.selector

C23_Witness ==
  /\ parsed.status = "accepted"
  /\ toolAction = "type"
  /\ validateActionArgs(toolAction, toolInput)
  /\ "index" \in DOMAIN toolInput
  /\ parsed.input = [kind |-> "object", selector |-> "#q", text |-> "#q"]
\* C28: planNode never fails the run on malformed model output: for every
\* reply that is not the expected JSON object, plan is the raw reply text and
\* refined_query is the original task, planNode goes on to extractInfoNode,
\* and no later state rewrites plan or refined_query.
C28_PlanFallsBackToRawReply ==
  [][/\ (currentNode = "planNode" /\
          passReply' \in {"notjson", "jsonnull", "jsonscalar"}) =>
            /\ ~crashed'
            /\ currentNode' = "extractInfoNode"
            /\ plan' = [plan |-> "raw reply", refined_query |-> "task"]
     /\ currentNode # "planNode" => plan' = plan]_vars
IsPrefix(s, t) == Len(s) <= Len(t) /\ \A i \in 1..Len(s) : s[i] = t[i]

C30_SuccessEndsWithoutError ==
  (done /\ finalResult # NoResult /\ Head(finalResult) # "Error: ") =>
    error = NoError
\* C27: searchDuckDuckGo's pagination loop always terminates and processes
\* at most 3 result pages (the page counter increases on each successful
\* pagination and a failed pagination stops the loop); the function returns
\* at most 15 results, and every returned result has a url string starting
\* with 'http'.
C27_SearchBounded ==
  /\ <>(searchPc \in {"returned", "threw"})
  /\ [](pagesProcessed <= 3)
  /\ [][(searchPc = "blocks" /\ searchPc' = "loop") =>
          \/ currentPage' = currentPage + 1 /\ hasNext'
          \/ currentPage' = currentPage /\ ~hasNext']_vars
  /\ [][(searchPc = "loop" /\ ~hasNext) => searchPc' = "returned"]_vars
  /\ [](searchPc = "returned" =>
          /\ searchReturn.count <= 15
          /\ searchReturn.urls \subseteq
                {"http://a.example", "https://b.example", "httpx"})

C27_Witness ==
  /\ searchPc = "returned"
  /\ pagesProcessed = 3
  /\ allResults.count = 21
  /\ searchReturn.count = 15
  /\ searchReturn.urls = {"http://a.example", "https://b.example"}
\* C24: in the extraction stage, if one per-result extraction task fails
\* (its model call rejects), the siblings are not aborted, the stage still
\* yields their records and the pipeline goes on to the trends and report
\* stages: the failure does not end the stage by an exception, and the
\* browser the siblings use stays open.
C24_FailedTaskKeepsPipeline ==
  [][(/\ orchPc = "extract"
      /\ \E i \in DOMAIN tasks :
           tasks[i].pc = "llm" /\ tasks'[i].pc = "failed") =>
        /\ orchPc' \in {"extract", "trends"}
        /\ report' # Throwing
        /\ browserOpen']_vars

InFlight(i) == tasks[i].pc \in {"loading", "llm"}

\* C25: orchestrateExtraction runs its stages in the order search,
\* extraction, trends, report, and the extraction stage ends only after
\* every task it started has finished: outside the extraction stage no task
\* is in flight.
C25_StagesInOrderWithBarrier ==
  /\ [][orchPc' # orchPc =>
          /\ orchPc' = "search" => orchPc = "start"
          /\ orchPc' = "extract" => orchPc = "search"
          /\ orchPc' = "trends" => orchPc = "extract"
          /\ orchPc' = "report" => orchPc = "trends"
          /\ orchPc' = "returned" => orchPc = "closing"]_vars
  /\ [](orchPc # "extract" => \A i \in DOMAIN tasks : ~InFlight(i))

\* C26: for every search result and every model response that is returned,
\* extractBreakthroughFromPage yields a record with the five schema fields
\* as strings: the model's record if the response is JSON that passes the
\* schema, otherwise the default record (Description = the snippet or '',
\* 'Source URL' = the result's url, the other three 'N/A'); a task fails
\* only when its model call rejects, never because the page did not load.
C26_RecordAlwaysFiveStrings ==
  \A i \in DOMAIN tasks :
    /\ tasks[i].pc = "failed" => tasks[i].response.kind = "rejects"
    /\ tasks[i].pc = "done" =>
         /\ DOMAIN tasks[i].record = SchemaFields
         /\ \A f \in SchemaFields : tasks[i].record[f] # NotAString
         /\ IF /\ tasks[i].response.kind = "json"
               /\ tasks[i].response.value.type = "object"
               /\ tasks[i].response.value.fields \in
                    {FullObject, ExtraKeyObject}
              THEN tasks[i].record = FullObject
              ELSE /\ tasks[i].record["Source URL"] = results[i].url
                   /\ tasks[i].record["Description"] =
                        (IF "snippet" \in DOMAIN results[i]
                           THEN results[i].snippet ELSE "")
                   /\ \A f \in SchemaFields \ {"Description", "Source URL"} :
                        tasks[i].record[f] = "N/A"
AtError == currentNode = "errorHandlingNode"
ErrorWithin1 == AtError \/ ENABLED (Next /\ AtError')
ErrorWithin2 == AtError \/ ENABLED (Next /\ ErrorWithin1')
ErrorWithin3 == AtError \/ ENABLED (Next /\ ErrorWithin2')

CheckToEnd ==
  ENABLED (checkCompletionNode /\ currentNode' = "endNode"
           /\ (ENABLED (endNode /\ done'))')
TakeToCheck ==
  ENABLED (takeActionNode /\ currentNode' = "checkCompletionNode"
           /\ CheckToEnd')
TakeToExtract ==
  ENABLED (takeActionNode /\ currentNode' = "extractInfoNode")
AnalyzeToTake ==
  /\ ENABLED (analyzePageNode /\ currentNode' = "takeActionNode"
              /\ TakeToCheck')
  /\ ENABLED (analyzePageNode /\ currentNode' = "takeActionNode"
              /\ TakeToExtract')
ExtractToAnalyze ==
  ENABLED (extractInfoNode /\ currentNode' = "analyzePageNode"
           /\ AnalyzeToTake')
PlanToExtract ==
  ENABLED (planNode /\ currentNode' = "extractInfoNode" /\ ExtractToAnalyze')
StartToPlan ==
  ENABLED (startNode /\ currentNode' = "planNode" /\ PlanToExtract')

C32_ForcedSequenceInOrder ==
  [][(/\ currentNode = "extractInfoNode"
      /\ workflow = "modular"
      /\ ~done /\ ~crashed
      /\ url = DuckUrl
      /\ "type" \notin steps
      /\ passReply' \in {"navigate", "type", "click", "extract", "finish"}) =>
        \/ /\ currentNode' = "extractInfoNode"
           /\ stepCount' = stepCount + 1
           /\ \/ /\ passSteps' = <<"type", "click", "extract">>
                 /\ passTools' =
                      <<"type_text", "click_element", "extract_text">>
              \/ /\ passSteps' = <<"type", "click_enter", "extract">>
                 /\ passTools' = <<"type_text", "extract_text">>
           /\ steps' = steps \cup SeqToSet(passSteps')
        \/ /\ currentNode' = "errorHandlingNode"
           /\ error' # NoError
           /\ stepCount' = stepCount
           /\ passSteps' = <<>>
           /\ steps' = steps
           /\ passTools' \in
                {<<>>, <<"type_text">>, <<"type_text", "click_element">>,
                 <<"type_text", "click_element", "extract_text">>,
                 <<"type_text", "extract_text">>}]_vars

C32_Witness ==
  /\ workflow = "modular"
  /\ lastNode = "extractInfoNode"
  /\ passReply = "finish"
  /\ passSteps = <<"type", "click_enter", "extract">>
  /\ passTools = <<"type_text", "extract_text">>
  /\ currentNode = "extractInfoNode"
  /\ steps = {"navigate", "type", "click_enter", "extract"}
OnePass(st, sc, u, err) ==
  {[steps |-> r.steps, stepCount |-> r.stepCount, tools |-> r.tools,
    next |-> r.nextNode, url |-> r.url,
    error |-> IF r.error = "keep" THEN err ELSE r.error] :
     r \in {x \in extractInfoResults(workflow, st, sc, u, task, nextArgs) :
              ~x.thrown}}

TwoPasses(st, sc, u, err) ==
  UNION {{[p2 EXCEPT !.tools = p1.tools \o p2.tools] :
            p2 \in OnePass(p1.steps, p1.stepCount, p1.url, p1.error)} :
           p1 \in OnePass(st, sc, u, err)}

\* C33: after a successful navigate takeActionNode runs extractInfoNode and
\* the controller runs it again; the double pass is idempotent: whatever the
\* two passes leave (steps, stepCount, the tool invocations made, the error,
\* the state that follows) is what a single extractInfoNode pass can leave.
C33_DoublePassIdempotent ==
  (/\ currentNode = "takeActionNode" /\ ~done /\ ~crashed
   /\ nextAction = "navigate"
   /\ nextArgs.kind = "object" /\ "url" \in DOMAIN nextArgs
   /\ nextArgs.url # url
   /\ navLoopCount + 1 <= NavLoopLimit) =>
     TwoPasses(steps, stepCount, nextArgs.url, error)
       \subseteq OnePass(steps, stepCount, nextArgs.url, error)
\* C34: in takeActionNode an unknown action, a missing tool or a failing
\* tool call yields error set and nextNode = errorHandlingNode with no
\* entry appended to actionsTaken and retryCount unchanged; actionsTaken
\* gains an entry (the action) only when the tool call succeeded or a
\* navigate was skipped as already satisfied; 'finish' calls no tool and
\* goes to checkCompletionNode.
C34_TakeActionFrame ==
  [][(currentNode = "takeActionNode" /\ ~done /\ ~crashed) =>
       /\ (currentNode' = "errorHandlingNode" /\ passTools' = <<>>) =>
            /\ error' # NoError
            /\ actionsTaken' = actionsTaken
            /\ retryCount' = retryCount
       /\ actionsTaken' # actionsTaken =>
            /\ actionsTaken' = Append(actionsTaken, nextAction)
            /\ \/ /\ passTools' # <<>>
                  /\ nextAction \in {"navigate", "type", "click", "extract"}
                  /\ "tool" \in passCalls'
               \/ /\ nextAction = "navigate"
                  /\ nextArgs.url = url
                  /\ passTools' = <<>>
                  /\ currentNode' = "analyzePageNode"
       /\ nextAction = "finish" =>
            /\ currentNode' = "checkCompletionNode"
            /\ passTools' = <<>>
            /\ "tool" \notin passCalls'
            /\ actionsTaken' = actionsTaken]_vars

C34_Witness ==
  /\ currentNode = "errorHandlingNode"
  /\ lastNode = "takeActionNode"
  /\ nextAction = "click"
  /\ error = ToolErr
  /\ "tool" \in passCalls
  /\ actionsTaken = <<"navigate">>
ActionOfTool(t) ==
  CASE t = "navigate_to_url" -> "navigate"
    [] t = "type_text" -> "type"
    [] t = "click_element" -> "click"
    [] t = "extract_text" -> "extract"

\* C35: steps is a complete audit trail: every tool invocation performed
\* in a pass (each successful tool call of extractInfoNode or takeActionNode,
\* and each call of a forced sequence made before a later step failed) has
\* a matching entry appended to steps by that pass, and entries stay in
\* steps until the end of the run.
C35_StepsRecordEveryToolCall ==
  [][/\ \A i \in 1..Len(passTools') :
          /\ ActionOfTool(passTools'[i]) \in SeqToSet(passSteps')
          /\ ActionOfTool(passTools'[i]) \in steps'
     /\ steps \subseteq steps']_vars
\* C36: whenever checkCompletionNode is about to run after an extract tool
\* invocation has succeeded earlier in the run (an 'extract' entry is in
\* steps), context.extracted holds an extraction result, so the completion
\* prompt is built from the extracted data.
C36_ExtractedSetBeforeCheck ==
  (/\ currentNode = "checkCompletionNode" /\ ~done /\ ~crashed
   /\ "extract" \in steps) =>
     extracted # Unset
\* C37: the seen-set of extractWithSelectorNode skips only true duplicates:
\* when no attempt has succeeded, every candidate pair (selector, index) has
\* been attempted; two distinct pairs are never taken for the same key.
C37_OnlyTrueDuplicatesSkipped ==
  (/\ lastNode = "extractWithSelectorNode"
   /\ currentNode = "endNode"
   /\ ~crashed
   /\ Head(finalResult) = "Extraction failed: ") =>
     \A i \in 1..Len(extraction.candidates) :
       <<extraction.candidates[i].selector, extraction.candidates[i].index>>
         \in SeqToSet(attempts)

\* once orchestrateExtraction has returned or thrown, the browser is not open
BrowserClosedAtExit == orchPc \in {"returned", "threw"} => ~browserOpen

\* C38: orchestrateExtraction closes the browser on every exit path (normal
\* return, no search results, a stage throwing): once it has returned or
\* thrown, the browser is not open; and the browser is never closed while an
\* extraction task of the fan-out is still running (tasks start only while
\* the browser is open, so a closed browser with a task in flight means it
\* was closed under that task).
C38_BrowserClosedAtExitNotUnderTasks ==
  /\ BrowserClosedAtExit
  /\ ~browserOpen => \A i \in DOMAIN tasks : tasks[i].pc \notin {"loading", "llm"}

\* C39: the rows of the report orchestrateExtraction returns are in the order
\* of the search results, exactly one row per search result, whatever the
\* order in which the parallel extraction tasks settled: row i is the record
\* extracted for result i.
C39_RowsInSearchResultOrder ==
  report.status = "returned" =>
    /\ DOMAIN report.rows = 1..Len(results)
    /\ \A i \in 1..Len(results) :
         report.rows[i] = Structured(results[i], tasks[i].response)

\* a report is returned for two results whose tasks settled in the reverse
\* order and whose rows differ
C39_Witness ==
  /\ report.status = "returned"
  /\ Len(results) = 2
  /\ tasks[1].order = 2
  /\ tasks[2].order = 1
  /\ report.rows[1] # report.rows[2]
  /\ report.rows[1]["Source URL"] = results[1].url
====
